---- MODULE Spec2Model ----
(***************************************************************************)
(* Pomodoro timer firmware: the multiplexed seven-segment display driver   *)
(* (seven_segment.py) and the countdown / pause / reset control loop with  *)
(* its melody threads (main.py).                                           *)
(*                                                                         *)
(* Strings of the program are sequences of one-character strings.  Times   *)
(* are milliseconds of time.ticks_ms().  A button is TRUE when it is       *)
(* pressed (its pull-up pin reads 0).                                      *)
(***************************************************************************)
EXTENDS Integers, Sequences, FiniteSets, TLC

VARIABLES
    \* ---- seven_segment.SevenSegmentDisplay
    buffer,         \* self.buffer: one character per digit
    dotmask,        \* self.dotmask: one boolean per digit
    current_digit,  \* self.current_digit
    digits,         \* levels of the digit-select pins, index 0..N-1
    segments,       \* levels of the seven segment pins a..g
    dp,             \* level of the decimal-point pin
    rpc,            \* position of the timer callback _refresh
    ch,             \* _refresh's local ch
    api,            \* position of the control loop inside clear()
    sel_log,        \* history: the digits selected by the latest N _refresh calls
    op,             \* history: the control loop's latest call of the display
    since,          \* history: _refresh calls completed since that call (up to N)
    \* ---- main.py, control loop
    pc,             \* position of the control loop
    clock,          \* time.ticks_ms()
    seconds,        \* countdown's seconds
    color_changed,  \* countdown's color_changed
    frame,          \* countdown's frame
    end_time,       \* countdown's end_time
    now,            \* the local now of countdown's pause loop and of set_times
    paused,         \* paused_flag[0]
    led,            \* colour last given to update_led
    btn_confirm,    \* level of btn_confirm at the control loop's latest step
    btn_reset,      \* level of btn_reset at the control loop's latest step
    phase,          \* which countdown call of main's loop: "work" or "rest"
    depth,          \* number of main() invocations nested inside a countdown
    jingles,        \* the music objects of each main() invocation: their cursors
    threads,        \* the running _play_jingle_thread tasks, in start order
    \* ---- main.py, set_times and main
    study,          \* set_times' study (minutes)
    rest,           \* set_times' rest (minutes)
    idx,            \* set_times' idx
    last,           \* set_times' last
    btn_up,         \* level of btn_up at set_times' latest iteration
    btn_down,       \* level of btn_down at set_times' latest iteration
    study_secs,     \* main's study_secs
    rest_secs,      \* main's rest_secs
    \* ---- history of the current set_times call and of main's loop
    acc,            \* the buttons whose press the latest iteration accepted
    own_last,       \* per button: the time of its own latest accepted press
    had,            \* the buttons with an accepted press in this set_times call
    edited,         \* an up or down press has been accepted
    clamped,        \* the latest iteration cut a step off at a limit
    phases,         \* countdown calls started
    paused_before,  \* an earlier countdown call was paused
    \* ---- history of the current countdown call
    dur,            \* the seconds the call was started with
    ticks,          \* decrements of seconds so far
    lm_fired,       \* update_led(led_color_last_min) calls so far
    lm_at,          \* the seconds value at the latest such call
    first_frame,    \* the first frame written
    first_end,      \* the first deadline computed
    was_paused,     \* the call has been paused
    blinked,        \* the pause loop has completed an iteration in this pause
    reset_seen,     \* btn_reset was pressed at a step of the call
    stale_tick,     \* a thread started before the latest reset has called tick()
    quiet           \* scenario: no button is ever pressed

dispVars == <<buffer, dotmask, current_digit, digits, segments, dp, rpc, ch,
              api, sel_log, op, since>>
ctrlVars == <<pc, clock, seconds, color_changed, frame, end_time, now, paused,
              led, btn_confirm, btn_reset, phase, depth, jingles, threads>>
histVars == <<dur, ticks, lm_fired, lm_at, first_frame, first_end, was_paused,
              blinked, reset_seen, stale_tick, quiet>>
setVars == <<study, rest, idx, last, btn_up, btn_down, study_secs, rest_secs,
             acc, own_last, had, edited, clamped>>
runVars == <<phases, paused_before>>
cfgVars == <<setVars, runVars>>
vars == <<dispVars, ctrlVars, histVars, cfgVars>>

-----------------------------------------------------------------------------
(* seven_segment.py                                                        *)

SEGMENT_ON == 1
SEGMENT_OFF == 0
DIGIT_ON == 0
DIGIT_OFF == 1

\* len(self.digits): digit_pin_numbers = [10, 11, 12, 13]
N == 4

\* self.patterns
Patterns ==
    ("0" :> <<1,1,1,1,1,1,0>>) @@ ("1" :> <<0,1,1,0,0,0,0>>) @@
    ("2" :> <<1,1,0,1,1,0,1>>) @@ ("3" :> <<1,1,1,1,0,0,1>>) @@
    ("4" :> <<0,1,1,0,0,1,1>>) @@ ("5" :> <<1,0,1,1,0,1,1>>) @@
    ("6" :> <<1,0,1,1,1,1,1>>) @@ ("7" :> <<1,1,1,0,0,0,0>>) @@
    ("8" :> <<1,1,1,1,1,1,1>>) @@ ("9" :> <<1,1,1,1,0,1,1>>) @@
    ("-" :> <<0,0,0,0,0,0,1>>) @@ (" " :> <<0,0,0,0,0,0,0>>) @@
    ("A" :> <<1,1,1,0,1,1,1>>) @@ ("B" :> <<0,0,1,1,1,1,1>>) @@
    ("C" :> <<1,0,0,1,1,1,0>>) @@ ("D" :> <<0,1,1,1,1,0,1>>) @@
    ("E" :> <<1,0,0,1,1,1,1>>) @@ ("F" :> <<1,0,0,0,1,1,1>>)

\* self.patterns.get(ch, self.patterns[' '])
PatternOf(c) == IF c \in DOMAIN Patterns THEN Patterns[c] ELSE Patterns[" "]

\* [" "] * len(self.digits) and [False] * len(self.digits); lists are
\* 0-indexed in the program and 1-indexed here (cell i is buffer[i + 1]).
BlankBuffer == [i \in 1..N |-> " "]
NoDots == [i \in 1..N |-> FALSE]

Spaces(k) == [i \in 1..k |-> " "]

\* write(text): the list that becomes self.buffer
Write_NoCut(text) ==
    IF Len(text) < N THEN text \o Spaces(N - Len(text)) ELSE text
Write_NoPad(text) ==
    IF Len(text) > N THEN SubSeq(text, 1, N) ELSE text
Write(text) ==
    IF Len(text) < N THEN text \o Spaces(N - Len(text))
    ELSE IF Len(text) > N THEN SubSeq(text, 1, N)
    ELSE text

\* set_decimal_point(position, state): the new self.dotmask
SetDecimalPoint_Wrap(mask, position, state) ==
    IF -N <= position /\ position < N
    THEN [mask EXCEPT ![(position % N) + 1] = state]
    ELSE mask
SetDecimalPoint(mask, position, state) ==
    IF 0 <= position /\ position < N
    THEN [mask EXCEPT ![position + 1] = state]
    ELSE mask

\* _refresh: prev_digit = (self.current_digit - 1) % len(self.digits)
PrevDigit_Next(cd) == (cd + 1) % N
PrevDigit(cd) == (cd - 1) % N

\* _refresh: self.current_digit = (self.current_digit + 1) % len(self.digits)
AdvanceDigit_Skip(cd) == (cd + 2) % N
AdvanceDigit(cd) == (cd + 1) % N

\* SEGMENT_ON if pattern[i] else SEGMENT_OFF, for each segment pin
SegmentLevels_AllOff(pattern) == [i \in 1..7 |-> SEGMENT_OFF]
SegmentLevels(pattern) ==
    [i \in 1..7 |-> IF pattern[i] # 0 THEN SEGMENT_ON ELSE SEGMENT_OFF]

\* The texts the control loop writes in the display specification.
Texts ==
    { <<"1">>, <<"1","2","3","4","5">>, <<"0","2","0","5">>, <<"x","-">> }

\* The positions given to set_decimal_point in the display specification.
DotPositions == {-1, 0, N - 1, N}

\* History: the latest N selections.
Log(l, d) == IF Len(l) < N THEN Append(l, d) ELSE Append(Tail(l), d)

\* The driver between two _refresh calls before any digit was selected,
\* with the cells buf left by the control loop's call o.
DisplayAt(buf, o) ==
    /\ buffer = buf
    /\ dotmask = NoDots
    /\ current_digit = 0
    /\ digits = [i \in 0..(N - 1) |-> DIGIT_OFF]
    /\ segments = [i \in 1..7 |-> SEGMENT_OFF]
    /\ dp = SEGMENT_OFF
    /\ rpc = "idle"
    /\ ch = " "
    /\ api = "idle"
    /\ sel_log = << >>
    /\ op = o
    /\ since = 0

\* __init__: buffer, dotmask, current_digit, all digit enables OFF.
DisplayInit == DisplayAt(BlankBuffer, [name |-> "init"])

\* _refresh, step 1: turn off the previously selected digit.  The callback
\* runs to completion: the control loop does not run while rpc # "idle".
RefreshDeselect ==
    /\ rpc = "idle"
    /\ digits' = [digits EXCEPT ![PrevDigit(current_digit)] = DIGIT_OFF]
    /\ rpc' = "read"
    /\ UNCHANGED <<buffer, dotmask, current_digit, segments, dp, ch, api, sel_log,
                   op>>
    /\ UNCHANGED since

\* _refresh, step 2: ch = self.buffer[self.current_digit]
RefreshRead ==
    /\ rpc = "read"
    /\ ch' = buffer[current_digit + 1]
    /\ rpc' = "segments"
    /\ UNCHANGED <<buffer, dotmask, current_digit, digits, segments, dp, api, sel_log,
                   op>>
    /\ UNCHANGED since

\* _refresh, step 3: drive the seven segment pins
RefreshSegments ==
    /\ rpc = "segments"
    /\ segments' = SegmentLevels(PatternOf(ch))
    /\ rpc' = "dp"
    /\ UNCHANGED <<buffer, dotmask, current_digit, digits, dp, ch, api, sel_log,
                   op>>
    /\ UNCHANGED since

\* _refresh, step 4: the decimal point of this digit
RefreshDp ==
    /\ rpc = "dp"
    /\ dp' = IF dotmask[current_digit + 1] THEN SEGMENT_ON ELSE SEGMENT_OFF
    /\ rpc' = "select"
    /\ UNCHANGED <<buffer, dotmask, current_digit, digits, segments, ch, api, sel_log,
                   op>>
    /\ UNCHANGED since

\* _refresh, step 5: enable this digit
RefreshSelect ==
    /\ rpc = "select"
    /\ digits' = [digits EXCEPT ![current_digit] = DIGIT_ON]
    /\ sel_log' = Log(sel_log, current_digit)
    /\ rpc' = "advance"
    /\ UNCHANGED <<buffer, dotmask, current_digit, segments, dp, ch, api, op>>
    /\ UNCHANGED since

\* _refresh, step 6: move to the next digit
RefreshAdvance ==
    /\ rpc = "advance"
    /\ current_digit' = AdvanceDigit(current_digit)
    /\ rpc' = "idle"
    /\ UNCHANGED <<buffer, dotmask, digits, segments, dp, ch, api, sel_log,
                   op>>
    /\ since' = IF since < N THEN since + 1 ELSE since

\* clear(), first assignment: self.buffer
ApiClearBuffer ==
    /\ rpc = "idle" /\ api = "idle"
    /\ buffer' = BlankBuffer
    /\ api' = "clear"
    /\ op' = [name |-> "clear"]
    /\ UNCHANGED <<dotmask, current_digit, digits, segments, dp, rpc, ch, sel_log>>
    /\ since' = 0

\* clear(), second assignment: self.dotmask
ApiClearDots ==
    /\ rpc = "idle" /\ api = "clear"
    /\ dotmask' = NoDots
    /\ api' = "idle"
    /\ UNCHANGED <<buffer, current_digit, digits, segments, dp, rpc, ch, sel_log,
                   op>>
    /\ since' = 0

\* write(text)
ApiWrite ==
    /\ rpc = "idle" /\ api = "idle"
    /\ \E text \in Texts :
           /\ buffer' = Write(text)
           /\ op' = [name |-> "write", text |-> text]
    /\ UNCHANGED <<dotmask, current_digit, digits, segments, dp, rpc, ch, api, sel_log>>
    /\ since' = 0

\* set_decimal_point(position, state)
ApiSetDecimalPoint ==
    /\ rpc = "idle" /\ api = "idle"
    /\ \E position \in DotPositions, state \in BOOLEAN :
           /\ dotmask' = SetDecimalPoint(dotmask, position, state)
           /\ op' = [name |-> "dot", position |-> position, state |-> state]
    /\ UNCHANGED <<buffer, current_digit, digits, segments, dp, rpc, ch, api, sel_log>>
    /\ since' = 0

-----------------------------------------------------------------------------
\* The control loop's state while only the display is exercised.
CtrlIdle ==
    /\ pc = "display"
    /\ clock = 0 /\ seconds = 0 /\ color_changed = FALSE
    /\ frame = BlankBuffer /\ end_time = 0 /\ now = 0 /\ paused = FALSE
    /\ led = "off" /\ btn_confirm = FALSE /\ btn_reset = FALSE
    /\ phase = "work" /\ depth = 0 /\ jingles = << >> /\ threads = << >>

HistInit ==
    /\ dur = 0 /\ ticks = 0 /\ lm_fired = 0 /\ lm_at = -1
    /\ first_frame = << >> /\ first_end = -1
    /\ was_paused = FALSE /\ blinked = FALSE /\ reset_seen = FALSE
    /\ stale_tick = FALSE

\* set_times and main's loop before they have run.
CfgIdle ==
    /\ study = 25 /\ rest = 5 /\ idx = 0 /\ last = 0
    /\ btn_up = FALSE /\ btn_down = FALSE
    /\ study_secs = 0 /\ rest_secs = 0
    /\ acc = {} /\ own_last = [b \in {"up", "down", "confirm"} |-> 0]
    /\ had = {}
    /\ edited = FALSE /\ clamped = FALSE
    /\ phases = 0 /\ paused_before = FALSE

\* The display driver under its timer and the control loop's calls.
DisplayNext ==
    \/ (RefreshDeselect /\ UNCHANGED <<ctrlVars, histVars, cfgVars>>)
    \/ (RefreshRead /\ UNCHANGED <<ctrlVars, histVars, cfgVars>>)
    \/ (RefreshSegments /\ UNCHANGED <<ctrlVars, histVars, cfgVars>>)
    \/ (RefreshDp /\ UNCHANGED <<ctrlVars, histVars, cfgVars>>)
    \/ (RefreshSelect /\ UNCHANGED <<ctrlVars, histVars, cfgVars>>)
    \/ (RefreshAdvance /\ UNCHANGED <<ctrlVars, histVars, cfgVars>>)
    \/ (ApiClearBuffer /\ UNCHANGED <<ctrlVars, histVars, cfgVars>>)
    \/ (ApiClearDots /\ UNCHANGED <<ctrlVars, histVars, cfgVars>>)
    \/ (ApiWrite /\ UNCHANGED <<ctrlVars, histVars, cfgVars>>)
    \/ (ApiSetDecimalPoint /\ UNCHANGED <<ctrlVars, histVars, cfgVars>>)

\* The next step of the _refresh callback alone.
RefreshStep ==
    \/ (RefreshDeselect /\ UNCHANGED <<ctrlVars, histVars, cfgVars>>)
    \/ (RefreshRead /\ UNCHANGED <<ctrlVars, histVars, cfgVars>>)
    \/ (RefreshSegments /\ UNCHANGED <<ctrlVars, histVars, cfgVars>>)
    \/ (RefreshDp /\ UNCHANGED <<ctrlVars, histVars, cfgVars>>)
    \/ (RefreshSelect /\ UNCHANGED <<ctrlVars, histVars, cfgVars>>)
    \/ (RefreshAdvance /\ UNCHANGED <<ctrlVars, histVars, cfgVars>>)

DisplaySpecInit ==
    DisplayInit /\ CtrlIdle /\ HistInit /\ CfgIdle /\ quiet = FALSE

DisplaySpec == DisplaySpecInit /\ [][DisplayNext]_vars

-----------------------------------------------------------------------------
(* main.py                                                                 *)

\* time.ticks_add / time.ticks_diff: arithmetic modulo the ticks period.
TicksPeriod == 2^30
ticks_add(t, delta) == (t + delta) % TicksPeriod
ticks_diff(a, b) == ((a - b + TicksPeriod \div 2) % TicksPeriod) - TicksPeriod \div 2

\* countdown: end_time = time.ticks_add(time.ticks_ms(), 1000)
TickMs == 1000
\* countdown: time.sleep_ms(300), the debounce delay after a confirm press
DebounceSleepMs == 300
\* countdown: time.sleep_ms(50) in the pause loop
PausedSleepMs == 50
\* countdown: blink_on = (now // 500) % 2 == 0
BlinkMs == 500
\* countdown: seconds == 60
LastMinute == 60

\* The busy-wait loop of countdown has no sleep; it is observed at the
\* cadence of the pause loop, and at its deadline.
PollMs == PausedSleepMs

\* Time that passes between two reads of the clock while the program
\* computes (formatting the frame, writing the buffer): 0..MaxLag ms.
MaxLag == 1

\* The control loop is followed until the clock passes the horizon.
MaxTime == 2500
QuietHorizon == 130000
Horizon == IF quiet THEN QuietHorizon ELSE MaxTime

\* The levels a button can show when the control loop looks at it.
Levels == IF quiet THEN {FALSE} ELSE BOOLEAN

\* The durations countdown is started with.
MaxShort == 2
Durations == 0..MaxShort \cup {LastMinute, LastMinute + 1}

\* str(d) of one decimal digit
DigitChar(d) == <<"0","1","2","3","4","5","6","7","8","9">>[d + 1]

\* str(n) for n >= 0
RECURSIVE Decimal(_)
Decimal(n) ==
    IF n < 10 THEN <<DigitChar(n)>>
    ELSE Decimal(n \div 10) \o <<DigitChar(n % 10)>>

\* f"{n:02}": the decimal digits, zero-padded on the left to width 2
Fmt02_NoPad(n) == Decimal(n)
Fmt02(n) == IF Len(Decimal(n)) < 2 THEN <<"0">> \o Decimal(n) ELSE Decimal(n)

\* countdown: m = seconds // 60; s = seconds % 60; frame = f"{m:02}{s:02}"
Frame(secs) == Fmt02(secs \div 60) \o Fmt02(secs % 60)

\* countdown: while seconds >= 0
LoopCond_Strict(secs) == secs > 0
LoopCond(secs) == secs >= 0

\* countdown: if led_color_last_min and seconds == 60 and not color_changed
\* (both calls in main pass a last-minute colour)
LastMinuteDue_Repeat(secs, changed) == secs <= LastMinute
LastMinuteDue(secs, changed) == secs = LastMinute /\ ~changed

\* countdown: time.ticks_add(time.ticks_ms(), 1000)
NextDeadline(t) == ticks_add(t, TickMs)

\* countdown: paused_flag[0] = not paused_flag[0]
TogglePause(p) == ~p

\* countdown: blink_on = (now // 500) % 2 == 0
BlinkOn_Inverted(t) == (t \div BlinkMs) % 2 = 1
BlinkOn(t) == (t \div BlinkMs) % 2 = 0

\* countdown, pause loop: paused_flag[0] = False
Resume_Keep(p) == p
Resume(p) == FALSE

\* countdown: main(), called from inside countdown: one more nested
\* invocation
Enter_Flat(d) == d
Enter(d) == d + 1

\* countdown: seconds -= 1
Decrement(secs) == secs - 1

\* The busy-wait loop spins from t to its next observation point.
Spin(t, deadline) ==
    IF ticks_diff(deadline, t + PollMs) > 0 THEN t + PollMs
    ELSE IF ticks_diff(deadline, t) > 0 THEN deadline
    ELSE t

\* jingle_selection: three fresh music objects, each at its start
NewJingles == [intro |-> 0, work |-> 0, rest |-> 0]

\* Number of tick() calls of a melody that return True.
JingleLen == 2

\* music.tick(): its result, and the cursor it leaves
TickResult(cursor) == cursor < JingleLen
TickCursor(cursor) == IF cursor < JingleLen THEN cursor + 1 ELSE cursor

\* play_jingle(jingle): _thread.start_new_thread(_play_jingle_thread, (jingle,))
PlayJingle(ths, gen, name) ==
    Append(ths, [gen |-> gen, jingle |-> name, at |-> "tick"])

RemoveAt_None(s, i) == s
RemoveAt(s, i) == SubSeq(s, 1, i - 1) \o SubSeq(s, i + 1, Len(s))

\* countdown, entry: color_changed = False
CdEnter ==
    /\ pc = "countdown"
    /\ color_changed' = FALSE
    /\ pc' = "L99"
    /\ dur' = seconds /\ ticks' = 0 /\ lm_fired' = 0 /\ lm_at' = -1
    /\ first_frame' = << >> /\ first_end' = -1
    /\ was_paused' = FALSE /\ blinked' = FALSE /\ reset_seen' = FALSE
    /\ phases' = phases + 1
    /\ paused_before' = (paused_before \/ was_paused)
    /\ UNCHANGED setVars
    /\ UNCHANGED <<clock, seconds, frame, end_time, now, paused, led,
                   btn_confirm, btn_reset, phase, depth, jingles, threads,
                   stale_tick, quiet, dispVars>>

\* countdown, lines 99-112: the loop test passes; last-minute colour, frame,
\* display.write(frame), end_time
CdFrame ==
    /\ pc = "L99"
    /\ LoopCond(seconds)
    /\ clock < Horizon
    /\ LET fire == LastMinuteDue(seconds, color_changed) IN
        /\ led' = IF fire THEN "last_min" ELSE led
        /\ color_changed' = (fire \/ color_changed)
        /\ lm_fired' = IF fire THEN lm_fired + 1 ELSE lm_fired
        /\ lm_at' = IF fire THEN seconds ELSE lm_at
    /\ frame' = Frame(seconds)
    /\ buffer' = Write(frame')
    /\ op' = [name |-> "write", text |-> frame']
    /\ UNCHANGED cfgVars
    /\ \E lag \in 0..MaxLag : clock' = clock + lag
    /\ end_time' = NextDeadline(clock')
    /\ first_frame' = IF first_frame = << >> THEN frame' ELSE first_frame
    /\ first_end' = IF first_end = -1 THEN end_time' ELSE first_end
    /\ pc' = "L113"
    /\ UNCHANGED <<seconds, now, paused, btn_confirm, btn_reset, phase, depth,
                   jingles, threads, dur, ticks, was_paused, blinked,
                   reset_seen, stale_tick, quiet>>
    /\ UNCHANGED <<dotmask, current_digit, digits, segments, dp, rpc, ch, api,
                   sel_log>>
    /\ since' = 0

\* countdown, line 99: the loop test fails and countdown returns to main's
\* loop, which goes on with the other phase
CdReturn ==
    /\ pc = "L99"
    /\ ~LoopCond(seconds)
    /\ pc' = IF phase = "work" THEN "rest_start" ELSE "work_start"
    /\ UNCHANGED cfgVars
    /\ UNCHANGED <<clock, seconds, color_changed, frame, end_time, now, paused,
                   led, btn_confirm, btn_reset, phase, depth, jingles, threads,
                   histVars, dispVars>>

\* countdown, lines 113-123, one iteration of the polling loop before the
\* deadline: the pause toggle with its debounce sleep, then the reset test,
\* which calls main()
CdPoll ==
    /\ pc = "L113"
    /\ ticks_diff(end_time, clock) > 0
    /\ clock < Horizon
    /\ UNCHANGED cfgVars
    /\ \E c \in Levels, r \in Levels :
        LET t1 == IF c THEN clock + DebounceSleepMs ELSE clock
            p1 == IF c THEN TogglePause(paused) ELSE paused
        IN  /\ btn_confirm' = c
            /\ btn_reset' = r
            /\ paused' = p1
            /\ pc' = IF r THEN "main" ELSE IF p1 THEN "L126" ELSE "L113"
            /\ depth' = IF r THEN Enter(depth) ELSE depth
            /\ clock' = IF r \/ p1 THEN t1 ELSE Spin(t1, end_time)
            /\ was_paused' = (was_paused \/ (p1 /\ ~r))
            /\ blinked' = IF p1 /\ ~r THEN FALSE ELSE blinked
            /\ reset_seen' = (reset_seen \/ r)
    /\ UNCHANGED <<seconds, color_changed, frame, end_time, now, led, phase,
                   jingles, threads, dur, ticks, lm_fired, lm_at, first_frame,
                   first_end, stale_tick, quiet, dispVars>>

\* countdown, lines 126-140, one iteration of the pause loop: a confirm press
\* resumes after the debounce sleep; otherwise the frame blinks
CdPaused ==
    /\ pc \in {"L126", "L140"}
    /\ paused
    /\ clock < Horizon
    /\ now' = clock
    /\ UNCHANGED cfgVars
    /\ \E c \in Levels, r \in Levels :
        /\ btn_confirm' = c
        /\ btn_reset' = r
        /\ paused' = IF c THEN Resume(paused) ELSE paused
        /\ pc' = IF c THEN "L113" ELSE "L140"
        /\ clock' = IF c THEN clock + DebounceSleepMs ELSE clock + PausedSleepMs
        /\ buffer' = IF c THEN buffer
                     ELSE IF BlinkOn(now') THEN Write(frame) ELSE BlankBuffer
        /\ dotmask' = IF c \/ BlinkOn(now') THEN dotmask ELSE NoDots
        /\ op' = IF c THEN op
                 ELSE IF BlinkOn(now') THEN [name |-> "write", text |-> frame]
                 ELSE [name |-> "clear"]
        /\ since' = IF c THEN since ELSE 0
        /\ blinked' = IF c THEN blinked ELSE TRUE
        /\ reset_seen' = (reset_seen \/ r)
    /\ UNCHANGED <<seconds, color_changed, frame, end_time, led, phase, depth,
                   jingles, threads, dur, ticks, lm_fired, lm_at, first_frame,
                   first_end, was_paused, stale_tick, quiet>>
    /\ UNCHANGED <<current_digit, digits, segments, dp, rpc, ch, api, sel_log>>

\* countdown, lines 113 and 142: the deadline has passed; seconds -= 1
CdExpire ==
    /\ pc = "L113"
    /\ ~(ticks_diff(end_time, clock) > 0)
    /\ seconds' = Decrement(seconds)
    /\ UNCHANGED cfgVars
    /\ ticks' = ticks + 1
    /\ pc' = "L99"
    /\ UNCHANGED <<clock, color_changed, frame, end_time, now, paused, led,
                   btn_confirm, btn_reset, phase, depth, jingles, threads,
                   dur, lm_fired, lm_at, first_frame, first_end, was_paused,
                   blinked, reset_seen, stale_tick, quiet, dispVars>>

\* main, lines 190-193: update_led, jingle_selection, play_jingle(intro_jingle);
\* then set_times is called
MainStart ==
    /\ pc = "main"
    /\ led' = "purple"
    /\ jingles' = Append(jingles, NewJingles)
    /\ threads' = PlayJingle(threads, Len(jingles'), "intro")
    /\ pc' = "set_times"
    /\ UNCHANGED cfgVars
    /\ UNCHANGED <<clock, seconds, color_changed, frame, end_time, now, paused,
                   btn_confirm, btn_reset, phase, depth, histVars, dispVars>>

\* _play_jingle_thread: result = jingle.tick(); time.sleep(0.04)
ThreadTick ==
    \E i \in DOMAIN threads :
        LET th == threads[i]
            cursor == jingles[th.gen][th.jingle]
        IN  /\ th.at = "tick"
            /\ jingles' = [jingles EXCEPT ![th.gen][th.jingle] = TickCursor(cursor)]
            /\ threads' = [threads EXCEPT ![i].at =
                               IF TickResult(cursor) THEN "tick" ELSE "restart"]
            /\ stale_tick' = (stale_tick \/ th.gen <= depth)
            /\ UNCHANGED cfgVars
            /\ UNCHANGED <<pc, clock, seconds, color_changed, frame, end_time,
                           now, paused, led, btn_confirm, btn_reset, phase,
                           depth, dur, ticks, lm_fired, lm_at, first_frame,
                           first_end, was_paused, blinked, reset_seen, quiet,
                           dispVars>>

\* _play_jingle_thread: jingle.restart(), and the thread ends
ThreadRestart ==
    \E i \in DOMAIN threads :
        LET th == threads[i]
        IN  /\ th.at = "restart"
            /\ jingles' = [jingles EXCEPT ![th.gen][th.jingle] = 0]
            /\ threads' = RemoveAt(threads, i)
            /\ UNCHANGED cfgVars
            /\ UNCHANGED <<pc, clock, seconds, color_changed, frame, end_time,
                           now, paused, led, btn_confirm, btn_reset, phase,
                           depth, histVars, dispVars>>

\* main has called countdown(seconds, paused, ...) for the rest phase, right
\* after play_jingle(rest_jingle).
CountdownCall ==
    /\ pc = "countdown"
    /\ clock = 0
    /\ color_changed = FALSE /\ frame = << >> /\ end_time = 0 /\ now = 0
    /\ paused = FALSE
    /\ led = "rest"
    /\ btn_confirm = FALSE /\ btn_reset = FALSE
    /\ phase = "rest" /\ depth = 0
    /\ jingles = <<NewJingles>>
    /\ threads = PlayJingle(<< >>, 1, "rest")

CountdownNext ==
    \/ CdEnter
    \/ CdFrame
    \/ CdReturn
    \/ CdPoll
    \/ CdPaused
    \/ CdExpire
    \/ MainStart

\* One countdown call with any button input, followed into the main() a
\* reset calls, up to its call of set_times.
CountdownInit ==
    /\ DisplayInit /\ CountdownCall /\ HistInit /\ CfgIdle /\ quiet = FALSE
    /\ seconds \in Durations

CountdownSpec == CountdownInit /\ [][CountdownNext]_vars

\* The same with the melody threads running, for a zero-length phase.
MelodyNext ==
    \/ CountdownNext
    \/ ThreadTick
    \/ ThreadRestart

MelodyInit ==
    /\ DisplayInit /\ CountdownCall /\ HistInit /\ CfgIdle /\ quiet = FALSE
    /\ seconds = 0

MelodySpec == MelodyInit /\ [][MelodyNext]_vars

\* The same with the playback threads scheduled: a thread that can take a
\* step eventually takes one.
MelodyFairSpec ==
    MelodyInit /\ [][MelodyNext]_vars
    /\ WF_vars(ThreadTick) /\ WF_vars(ThreadRestart)

QuietNext ==
    \/ CdEnter
    \/ CdFrame
    \/ CdReturn
    \/ CdPoll
    \/ CdExpire

\* A countdown of 125 seconds with no button pressed.
QuietInit ==
    /\ DisplayInit /\ CountdownCall /\ HistInit /\ CfgIdle /\ quiet = TRUE
    /\ seconds = 125

QuietSpec == QuietInit /\ [][QuietNext]_vars

\* The frame of every remaining_seconds: countdown called with each value,
\* up to its first pass through the loop body.
MaxFrameSeconds == 6000

FrameNext ==
    \/ CdEnter
    \/ CdFrame

FrameInit ==
    /\ DisplayInit /\ CountdownCall /\ HistInit /\ CfgIdle /\ quiet = FALSE
    /\ seconds \in 0..MaxFrameSeconds

FrameSpec == FrameInit /\ [][FrameNext]_vars

-----------------------------------------------------------------------------
(* main.py, set_times and main's loop                                      *)

\* set_times: debounce = 500
debounce == 500
\* set_times: time.sleep_ms(40)
SetSleepMs == 40
\* set_times: study = 25, rest = 5
StudyDefault == 25
RestDefault == 5
\* set_times: the step and the limits of min(study + 5, 95), max(study - 5, 0)
StepMinutes == 5
MaxMinutes == 95
MinMinutes == 0
\* return study * 60, rest * 60
SecondsPerMinute == 60
\* main: time.sleep(0.3) after play_jingle(work_jingle)
WorkSleepMs == 300

\* The configuration phase is explored for this long (ms).
MaxSetTime == 1700

Buttons == {"up", "down", "confirm"}

Min(a, b) == IF a < b THEN a ELSE b
Max(a, b) == IF a > b THEN a ELSE b

\* set_times: min(study + 5, 95), min(rest + 5, 95)
StepUp_NoClamp(m) == m + StepMinutes
StepUp(m) == Min(m + StepMinutes, MaxMinutes)

\* set_times: max(study - 5, 0), max(rest - 5, 0)
StepDown(m) == Max(m - StepMinutes, MinMinutes)

\* set_times: if idx == 0 (study is edited) ... else (rest is edited)
EditsStudy_Always(i) == TRUE
EditsStudy(i) == i = 0

\* set_times: not btn.value() and time.ticks_diff(now, last) > debounce
Accepts_Slow(pressed, t, l) == pressed /\ ticks_diff(t, l) > 2 * debounce
Accepts(pressed, t, l) == pressed /\ ticks_diff(t, l) > debounce

\* set_times: frame = f"{study:02}{rest:02}"
SetFrame(s, r) == Fmt02(s) \o Fmt02(r)

\* set_times: the text written, with the field being edited blanked in the
\* off half of the blink period
SetShown(fr, i, t) ==
    IF i = 0 /\ ~BlinkOn(t) THEN <<" ", " ">> \o SubSeq(fr, 3, Len(fr))
    ELSE IF i = 1 /\ ~BlinkOn(t) THEN SubSeq(fr, 1, 2) \o <<" ", " ">>
    ELSE fr

\* return study * 60, rest * 60
ToSeconds_Raw(m) == m
ToSeconds(m) == m * SecondsPerMinute

\* set_times, lines 146-151: the defaults, idx and last
StInit ==
    /\ pc = "set_times"
    /\ study' = StudyDefault
    /\ rest' = RestDefault
    /\ idx' = 0
    /\ last' = clock
    /\ acc' = {}
    /\ own_last' = [b \in Buttons |-> clock]
    /\ had' = {}
    /\ edited' = FALSE
    /\ clamped' = FALSE
    /\ pc' = "L153"
    /\ UNCHANGED <<btn_up, btn_down, study_secs, rest_secs, runVars>>
    /\ UNCHANGED <<clock, seconds, color_changed, frame, end_time, now, paused,
                   led, btn_confirm, btn_reset, phase, depth, jingles, threads,
                   histVars, dispVars>>

\* set_times, lines 153-181, one iteration of the loop: the frame with its
\* blinking field, then the up, down and confirm tests in that order, each
\* against the one last, then time.sleep_ms(40)
StLoop ==
    /\ pc = "L153"
    /\ idx < 2
    /\ clock < MaxSetTime
    /\ now' = clock
    /\ buffer' = Write(SetShown(SetFrame(study, rest), idx, clock))
    /\ op' = [name |-> "write",
              text |-> SetShown(SetFrame(study, rest), idx, clock)]
    /\ \E u \in Levels, d \in Levels, c \in Levels :
        LET upOk == Accepts(u, clock, last)
            l1 == IF upOk THEN clock ELSE last
            s1 == IF upOk /\ EditsStudy(idx) THEN StepUp(study) ELSE study
            r1 == IF upOk /\ ~EditsStudy(idx) THEN StepUp(rest) ELSE rest
            downOk == Accepts(d, clock, l1)
            l2 == IF downOk THEN clock ELSE l1
            s2 == IF downOk /\ EditsStudy(idx) THEN StepDown(s1) ELSE s1
            r2 == IF downOk /\ ~EditsStudy(idx) THEN StepDown(r1) ELSE r1
            confirmOk == Accepts(c, clock, l2)
            l3 == IF confirmOk THEN clock ELSE l2
            got == {b \in Buttons : \/ b = "up" /\ upOk
                                    \/ b = "down" /\ downOk
                                    \/ b = "confirm" /\ confirmOk}
        IN  /\ btn_up' = u
            /\ btn_down' = d
            /\ btn_confirm' = c
            /\ study' = s2
            /\ rest' = r2
            /\ idx' = IF confirmOk THEN idx + 1 ELSE idx
            /\ last' = l3
            /\ acc' = got
            /\ own_last' = [b \in Buttons |->
                               IF b \in got THEN clock ELSE own_last[b]]
            /\ had' = had \cup got
            /\ edited' = (edited \/ upOk \/ downOk)
            /\ clamped' = \/ upOk /\ s1 + r1 # study + rest + StepMinutes
                          \/ downOk /\ s2 + r2 # s1 + r1 - StepMinutes
    /\ clock' = clock + SetSleepMs
    /\ UNCHANGED <<study_secs, rest_secs, runVars>>
    /\ UNCHANGED <<pc, seconds, color_changed, frame, end_time, paused, led,
                   btn_reset, phase, depth, jingles, threads, histVars>>
    /\ UNCHANGED <<dotmask, current_digit, digits, segments, dp, rpc, ch, api,
                   sel_log>>
    /\ since' = 0

\* set_times, lines 153 and 183: the loop ends and the durations are
\* returned; main, lines 195-196: study_secs, rest_secs = set_times() and
\* paused = [False]
StReturn ==
    /\ pc = "L153"
    /\ ~(idx < 2)
    /\ study_secs' = ToSeconds(study)
    /\ rest_secs' = ToSeconds(rest)
    /\ paused' = FALSE
    /\ pc' = "work_start"
    /\ UNCHANGED <<study, rest, idx, last, btn_up, btn_down, acc, own_last,
                   had, edited, clamped, runVars>>
    /\ UNCHANGED <<clock, seconds, color_changed, frame, end_time, now, led,
                   btn_confirm, btn_reset, phase, depth, jingles, threads,
                   histVars, dispVars>>

\* main, lines 200-207: the work phase's colour, melody and pause, then
\* countdown(study_secs, paused, ...)
WorkStart ==
    /\ pc = "work_start"
    /\ led' = "work"
    /\ threads' = PlayJingle(threads, Len(jingles), "work")
    /\ clock' = clock + WorkSleepMs
    /\ phase' = "work"
    /\ seconds' = study_secs
    /\ pc' = "countdown"
    /\ UNCHANGED cfgVars
    /\ UNCHANGED <<color_changed, frame, end_time, now, paused, btn_confirm,
                   btn_reset, depth, jingles, histVars, dispVars>>

\* main, lines 210-216: the rest phase's colour and melody, then
\* countdown(rest_secs, paused, ...)
RestStart ==
    /\ pc = "rest_start"
    /\ led' = "rest"
    /\ threads' = PlayJingle(threads, Len(jingles), "rest")
    /\ phase' = "rest"
    /\ seconds' = rest_secs
    /\ pc' = "countdown"
    /\ UNCHANGED cfgVars
    /\ UNCHANGED <<clock, color_changed, frame, end_time, now, paused,
                   btn_confirm, btn_reset, depth, jingles, histVars, dispVars>>

\* main after play_jingle(intro_jingle), in the main() that d accepted
\* resets have nested inside countdown calls: each main() made its own
\* jingles, the intro melody of the latest is playing, and the reset button
\* was last read when it was accepted.
MainBootedAt(d) ==
    /\ seconds = 0 /\ color_changed = FALSE
    /\ frame = << >> /\ end_time = 0 /\ now = 0 /\ paused = FALSE
    /\ led = "purple"
    /\ btn_confirm = FALSE /\ btn_reset = (d > 0)
    /\ phase = "work" /\ depth = d
    /\ jingles = [g \in 1..(d + 1) |-> NewJingles]
    /\ threads = PlayJingle(<< >>, d + 1, "intro")

\* main after play_jingle(intro_jingle), and at its call of set_times().
MainBooted == MainBootedAt(0)

SetTimesCall == MainBooted /\ pc = "set_times"

\* set_times some seconds after its call, the ticks counter having wrapped
\* since: thirteen up presses have been accepted, the latest one in the
\* iteration before this one.
NearMaxUps == 13
SetTimesNearMax ==
    /\ MainBooted /\ pc = "L153"
    /\ clock = 0
    /\ study = StudyDefault + NearMaxUps * StepMinutes
    /\ rest = RestDefault
    /\ idx = 0
    /\ last = ticks_add(clock, TicksPeriod - SetSleepMs)
    /\ btn_up = TRUE /\ btn_down = FALSE
    /\ study_secs = 0 /\ rest_secs = 0
    /\ acc = {"up"}
    /\ own_last = [b \in Buttons |->
                      IF b = "up" THEN last
                      ELSE ticks_add(clock, TicksPeriod
                                            - NearMaxUps * (debounce + SetSleepMs)
                                            - SetSleepMs)]
    /\ had = {"up"}
    /\ edited = TRUE /\ clamped = FALSE
    /\ DisplayAt(Write(SetShown(SetFrame(study - StepMinutes, rest), idx, last)),
                 [name |-> "write",
                  text |-> SetShown(SetFrame(study - StepMinutes, rest), idx, last)])
    /\ phases = 0 /\ paused_before = FALSE

ConfigNext ==
    \/ StInit
    \/ StLoop
    \/ StReturn
    \/ WorkStart
    \/ CdEnter

\* The configuration phase with any button input, from the call of
\* set_times or from late in a long configuration, up to the first line of
\* the work countdown.
ConfigInit ==
    /\ HistInit /\ quiet = FALSE
    /\ \/ DisplayInit /\ SetTimesCall /\ CfgIdle /\ clock = 0
       \/ SetTimesNearMax

ConfigSpec == ConfigInit /\ [][ConfigNext]_vars

\* The level read of each button.
Pressed(b) ==
    IF b = "up" THEN btn_up ELSE IF b = "down" THEN btn_down ELSE btn_confirm

\* One of up, down and confirm is held down from set_times' first iteration
\* on: every read finds that button pressed and the other buttons, reset
\* included, released.
OneHeld ==
    /\ Cardinality({b \in Buttons : Pressed(b)'}) = 1
    /\ (\E b \in Buttons : Pressed(b)) => UNCHANGED <<btn_up, btn_down, btn_confirm>>
    /\ ~btn_reset'

HeldNext ==
    \/ StInit
    \/ (StLoop /\ OneHeld)
    \/ StReturn
    \/ WorkStart
    \/ CdEnter
    \/ CdFrame
    \/ (CdPoll /\ OneHeld)
    \/ (CdPaused /\ OneHeld)
    \/ CdExpire

\* main from its call of set_times on, with one button held down all the
\* time.
HeldInit ==
    /\ HistInit /\ quiet = FALSE
    /\ DisplayInit /\ SetTimesCall /\ CfgIdle /\ clock = 0

HeldSpec == HeldInit /\ [][HeldNext]_vars

\* The minutes set_times is left with in the specification of main's loop:
\* work and rest of no length, and each of them with the other one of five
\* minutes.
MainConfigs == {<<0, 0>>, <<0, StepMinutes>>, <<StepMinutes, 0>>}

\* A time t milliseconds before the ticks counter's wrap to 0.
Before(t) == ticks_add(0, TicksPeriod - t)

\* set_times at the loop test that ends it, the ticks counter having wrapped
\* since its call: down presses have brought study and rest to cfg, then
\* confirm was accepted, each accepted press one window and one sleep after
\* the one before, the second confirm in the iteration before this test.
SetTimesDone(cfg, d) ==
    LET gap == debounce + SetSleepMs
        k == (StudyDefault - cfg[1]) \div StepMinutes
        j == (RestDefault - cfg[2]) \div StepMinutes
        shown == SetShown(SetFrame(cfg[1], cfg[2]), 1, Before(SetSleepMs))
    IN  /\ MainBootedAt(d) /\ pc = "L153"
        /\ clock = 0
        /\ study = cfg[1] /\ rest = cfg[2]
        /\ idx = 2
        /\ last = Before(SetSleepMs)
        /\ btn_up = FALSE /\ btn_down = FALSE
        /\ study_secs = 0 /\ rest_secs = 0
        /\ acc = {"confirm"}
        /\ own_last = [b \in Buttons |->
                          IF b = "confirm" THEN Before(SetSleepMs)
                          ELSE IF b = "down" /\ j > 0
                              THEN Before(SetSleepMs + gap)
                          ELSE IF b = "down" /\ k > 0
                              THEN Before(SetSleepMs + (j + 2) * gap)
                          ELSE Before(SetSleepMs + (k + j + 2) * gap)]
        /\ had = IF k + j > 0 THEN {"down", "confirm"} ELSE {"confirm"}
        /\ edited = (k + j > 0) /\ clamped = FALSE
        /\ phases = 0 /\ paused_before = FALSE
        /\ DisplayAt(Write(shown), [name |-> "write", text |-> shown])

MainNext ==
    \/ StReturn
    \/ WorkStart
    \/ RestStart
    \/ CdEnter
    \/ CdFrame
    \/ CdReturn
    \/ CdPoll
    \/ CdPaused
    \/ CdExpire
    \/ MainStart
    \/ StInit

\* The accepted resets before the set_times call main's specification
\* starts from.
MaxResets == 1

\* main from the return of set_times on, in the first main() or in one that
\* a reset has called: the work and rest phases in turn with any button
\* input, followed into the main() a reset calls, up to the first line of
\* its set_times loop.
MainInit ==
    /\ HistInit /\ quiet = FALSE
    /\ \E cfg \in MainConfigs, d \in 0..MaxResets : SetTimesDone(cfg, d)

MainSpec == MainInit /\ [][MainNext]_vars

-----------------------------------------------------------------------------
\* C1: at every instant at most one digit-select line is at the ON level,
\* and the latest N consecutive _refresh invocations selected N different
\* digits, that is each digit exactly once.
Selected == {i \in 0..(N - 1) : digits[i] = DIGIT_ON}

C1_OneDigitPerCycle ==
    /\ Cardinality(Selected) <= 1
    /\ Len(sel_log) = N => {sel_log[i] : i \in 1..N} = 0..(N - 1)

\* A full cycle has been refreshed after the buffer was written, and a
\* digit is lit.
C1_Witness ==
    /\ Len(sel_log) = N
    /\ buffer = Write(<<"1","2","3","4","5">>)
    /\ Cardinality(Selected) = 1
    /\ rpc = "idle"

-----------------------------------------------------------------------------
\* Positions of the control loop inside countdown's loops, and after its
\* return to main's loop.
InCountdown == pc \in {"L99", "L113", "L126", "L140"}
Returned == pc \in {"work_start", "rest_start"}

\* C2: in a countdown call update_led(led_color_last_min) is called at most
\* once, with seconds = 60, and it has been called exactly when the call
\* started with at least 60 seconds and its loop body has run with
\* seconds = 60; a pause and resume at 60 does not call it again.
C2_LastMinuteOnce ==
    /\ lm_fired <= 1
    /\ lm_fired = 1 => lm_at = 60
    /\ pc # "countdown" =>
           (lm_fired = 1 <=>
               (dur >= 60 /\ (seconds < 60 \/ (seconds = 60 /\ pc # "L99"))))
    /\ (InCountdown /\ lm_fired = 1) => (led = "last_min" /\ color_changed)

\* The countdown was paused and resumed while seconds is 60, after the
\* last-minute colour was set.
C2_Witness ==
    /\ seconds = 60 /\ pc = "L113" /\ lm_fired = 1
    /\ was_paused /\ blinked /\ ~paused

\* C3: once the reset button has been pressed at a step of a countdown call,
\* running or paused, that call never decrements seconds again.
C3_ResetAlwaysAborts == [][(reset_seen /\ reset_seen') => ticks' = ticks]_vars

\* C4: no playback thread started before the latest accepted reset calls
\* tick() after that reset.
C4_ResetAbortsMelody == ~stale_tick

\* C5: while the countdown call has never been paused, the deadline it waits
\* for after k decrements is its first deadline plus k * 1000 ms.
C5_NoDrift ==
    (pc = "L113" /\ ~was_paused) => end_time = first_end + ticks * 1000

\* C6: every decrement of seconds happens with paused = false.
C6_NoDecrementWhilePaused ==
    [][seconds' < seconds => (~paused /\ ~paused')]_vars

\* The deadline of the second has passed while the countdown is paused, and
\* seconds has not been decremented.
C6_Witness ==
    /\ paused /\ pc = "L140" /\ dur = 2 /\ seconds = 2 /\ ticks = 0
    /\ ticks_diff(end_time, clock) < 0

\* C7: while paused the buffer holds the frame of seconds or the blank
\* frame; after each iteration of the pause loop it holds the frame when
\* (now // 500) % 2 = 0 for the time now the iteration read, and the blank
\* frame otherwise; the pause ends only by a confirm press, which leaves
\* seconds unchanged and returns to the polling loop.
C7_PausedBlink ==
    /\ [](paused => buffer \in {Write(Frame(seconds)), BlankBuffer})
    /\ []((paused /\ pc = "L140") =>
            /\ clock = now + 50
            /\ buffer = IF (now \div 500) % 2 = 0
                        THEN Write(Frame(seconds)) ELSE BlankBuffer)
    /\ [][(paused /\ InCountdown /\ btn_confirm') =>
            (~paused' /\ pc' = "L113" /\ seconds' = seconds)]_vars
    /\ [][(paused /\ ~paused') => (InCountdown /\ btn_confirm')]_vars

\* The countdown was resumed by a confirm press after the pause loop had
\* blanked the buffer.
C7_Witness ==
    /\ ~paused /\ was_paused /\ blinked /\ pc = "L113" /\ btn_confirm
    /\ buffer = BlankBuffer /\ seconds = 2

\* C8 as claimed: first frame "0205", frame "0100" after 65 decrements, and
\* the call returns after 125 decrements.
C8_Scenario125 ==
    /\ first_frame \in {<< >>, <<"0","2","0","5">>}
    /\ (ticks = 65 /\ pc = "L113") => buffer = <<"0","1","0","0">>
    /\ Returned => ticks = 125

\* C8 as amended: first frame "0205", frame "0100" after 65 decrements,
\* frame "0000" after 125 decrements, and the call returns after 126.
C8_Scenario126 ==
    /\ first_frame \in {<< >>, <<"0","2","0","5">>}
    /\ (ticks = 65 /\ pc = "L113") => buffer = <<"0","1","0","0">>
    /\ (ticks = 125 /\ pc = "L113") => buffer = <<"0","0","0","0">>
    /\ ticks = 125 => ~Returned
    /\ Returned => (ticks = 126 /\ seconds = -1)

C8_Witness == Returned /\ ticks = 126 /\ dur = 125

\* C9 as claimed: a countdown call started with zero seconds returns
\* before one tick interval has passed since the call.
C9_ZeroImmediate == (dur = 0 /\ Returned) => clock < 1000

\* C9 as amended: a countdown call started with zero seconds writes frame
\* "0000", waits for one deadline of 1000 ms, decrements once and returns.
C9_ZeroOneTick ==
    (dur = 0 /\ Returned) =>
        /\ first_frame = <<"0","0","0","0">>
        /\ ticks = 1 /\ seconds = -1
        /\ first_end >= 1000
        /\ ticks_diff(clock, first_end) >= 0

C9_Witness == dur = 0 /\ Returned /\ ~was_paused /\ ticks = 1

\* C10: for seconds in [0, 5999] the frame is the two digits of
\* seconds // 60 followed by the two digits of seconds % 60, four characters,
\* and it is what the buffer holds.
TwoDigits(v) == <<DigitChar(v \div 10), DigitChar(v % 10)>>

C10_FrameMMSS ==
    (pc = "L113" /\ seconds \in 0..5999) =>
        /\ frame = TwoDigits(seconds \div 60) \o TwoDigits(seconds % 60)
        /\ Len(frame) = 4
        /\ buffer = frame

C10_Witness ==
    pc = "L113" /\ seconds = 5999 /\ buffer = <<"9","9","5","9">>

-----------------------------------------------------------------------------
\* One iteration of set_times' loop, and the level it read of each button.
SetIteration == pc = "L153" /\ pc' = "L153" /\ clock' # clock

\* C11: in the configuration phase, for each button, a press of the button
\* less than the debounce window after its previous accepted press is not
\* accepted (the two collapse into one event), and a press more than the
\* debounce window after its previous accepted press is accepted as well.
C11_SameButtonDebounce ==
    [][SetIteration =>
          \A b \in had :
              /\ (Pressed(b)' /\ ticks_diff(clock, own_last[b]) < debounce)
                     => b \notin acc'
              /\ (Pressed(b)' /\ ticks_diff(clock, own_last[b]) > debounce)
                     => b \in acc']_vars

\* C12: an edge on a button is accepted whenever that button is pressed and
\* the time since that button's own latest accepted edge exceeds the
\* debounce window, so that an accepted edge of one button never suppresses
\* or delays an edge of a different button.
C12_PerButtonDebounce ==
    [][SetIteration =>
          \A b \in Buttons :
              b \in acc' <=>
                  (Pressed(b)' /\ ticks_diff(clock, own_last[b]) > debounce)]_vars

\* C13: the work and rest minutes stay within [0, 95] and are multiples of
\* 5; a step that would leave the range leaves the value at the limit.
C13_MinutesClamped ==
    /\ study \in MinMinutes..MaxMinutes /\ study % StepMinutes = 0
    /\ rest \in MinMinutes..MaxMinutes /\ rest % StepMinutes = 0
    /\ (clamped /\ pc = "L153" /\ "up" \in acc) =>
           (IF idx = 0 THEN study ELSE rest) = MaxMinutes
    /\ (clamped /\ pc = "L153" /\ "down" \in acc) =>
           (IF idx = 0 THEN study ELSE rest) = MinMinutes

\* An up press has been accepted with the study minutes already at 95.
C13_Witness ==
    clamped /\ pc = "L153" /\ "up" \in acc /\ idx = 0 /\ study = MaxMinutes

-----------------------------------------------------------------------------
\* C15: after write(text) the cells are the first N characters of text,
\* padded on the right with blanks when text is shorter and cut when it is
\* longer: "1" gives "1", blank, blank, blank and "12345" gives "1234".
C15_WritePadsAndCuts ==
    op.name = "write" =>
        /\ buffer = [i \in 1..N |->
                        IF i <= Len(op.text) THEN op.text[i] ELSE " "]
        /\ op.text = <<"1">> => buffer = <<"1", " ", " ", " ">>
        /\ op.text = <<"1", "2", "3", "4", "5">> => buffer = <<"1", "2", "3", "4">>

\* A text longer than the display has been written.
C15_Witness ==
    /\ op.name = "write" /\ Len(op.text) > N
    /\ buffer = <<"1", "2", "3", "4">>

\* C16: under every interleaving of the control loop's calls with _refresh,
\* cells and dots have exactly N entries, the digit index lies in [0, N),
\* _refresh can always take its next step, the character it renders is the
\* cell of the current digit, and a slot the written text did not reach
\* reads as blank.
C16_RefreshReadsWholeLists ==
    /\ Len(buffer) = N /\ Len(dotmask) = N
    /\ current_digit \in 0..(N - 1)
    /\ ENABLED RefreshStep
    /\ rpc \in {"segments", "dp", "select", "advance"} =>
           /\ ch = buffer[current_digit + 1]
           /\ (op.name = "write" /\ current_digit >= Len(op.text)) => ch = " "

\* _refresh has read a cell between the two assignments of clear(), the
\* dots not yet cleared.
C16_Witness ==
    api = "clear" /\ rpc = "segments" /\ ch = " " /\ dotmask # NoDots

\* C17: the segment and decimal-point lines change only while every
\* digit-select line is OFF (the previous digit is deselected first), and
\* the digit that is selected is the current one, with the segment lines
\* carrying the pattern of its own cell and the dp line its own dot.
C17_BlankedWhileSwitching ==
    /\ [][(segments' # segments \/ dp' # dp) =>
              (Selected = {} /\ Selected' = {})]_vars
    /\ [](Selected # {} =>
              \/ /\ rpc = "advance"
                 /\ Selected = {current_digit}
                 /\ segments = SegmentLevels(PatternOf(buffer[current_digit + 1]))
                 /\ dp = IF dotmask[current_digit + 1] THEN SEGMENT_ON
                         ELSE SEGMENT_OFF
              \/ /\ rpc = "idle"
                 /\ Selected = {(current_digit + N - 1) % N}
                 /\ segments = SegmentLevels(PatternOf(ch)))

\* Digit 1 is lit with the pattern of "2" after another digit was lit
\* before it.
C17_Witness ==
    /\ rpc = "advance" /\ current_digit = 1 /\ Selected = {1}
    /\ buffer[2] = "2" /\ Len(sel_log) > 1
    /\ segments = SegmentLevels(Patterns["2"])

\* C18: current_digit is always in [0, N); only _refresh's last step changes
\* it, each invocation by exactly +1 modulo N; clear, write and
\* set_decimal_point leave current_digit and every digit-select, segment
\* and decimal-point line unchanged.
C18_OnlyRefreshDrivesPins ==
    /\ [](current_digit \in 0..(N - 1))
    /\ [][(rpc = "advance" /\ rpc' = "idle") =>
              current_digit' = (current_digit + 1) % N]_vars
    /\ [][(rpc # "advance") => current_digit' = current_digit]_vars
    /\ [][(rpc = "idle" /\ rpc' = "idle") =>
              UNCHANGED <<current_digit, digits, segments, dp>>]_vars

\* The control loop has set a dot while digit 2 is lit.
C18_Witness ==
    /\ op.name = "dot" /\ rpc = "idle" /\ dotmask # NoDots
    /\ Selected = {2} /\ current_digit = 3

\* C19: a cell holding a character that is not in the pattern table is
\* rendered with every segment off, and set_decimal_point with a position
\* outside [0, N), negative ones included, leaves cells and dots unchanged.
C19_InvalidInputIgnored ==
    /\ []((rpc \in {"dp", "select", "advance"} /\ ch \notin DOMAIN Patterns) =>
              segments = [i \in 1..7 |-> SEGMENT_OFF])
    /\ [][(op'.name = "dot" /\ op'.position \notin 0..(N - 1)) =>
              (buffer' = buffer /\ dotmask' = dotmask)]_vars

\* An unknown character is being rendered after set_decimal_point(-1, True).
C19_Witness ==
    /\ op.name = "dot" /\ op.position = -1 /\ op.state
    /\ rpc = "advance" /\ ch = "x" /\ Selected = {current_digit}

-----------------------------------------------------------------------------
\* The first line of countdown's loop, right after the call.
PhaseStart == pc = "L99" /\ ticks = 0 /\ first_frame = << >>

\* C20: every countdown phase, work or rest, first or later, after any
\* pauses in earlier phases, starts with remaining_seconds at the phase's
\* configured duration, not paused and with the last-minute flag down,
\* although all phases share one paused flag.
C20_PhaseStartsClean ==
    /\ pc = "countdown" =>
           /\ seconds = IF phase = "work" THEN study_secs ELSE rest_secs
           /\ ~paused
    /\ PhaseStart =>
           /\ seconds = IF phase = "work" THEN study_secs ELSE rest_secs
           /\ study_secs = study * 60 /\ rest_secs = rest * 60
           /\ ~paused
           /\ ~color_changed

\* A rest phase of five minutes starts after a work phase that was paused.
C20_Witness ==
    /\ PhaseStart /\ phase = "rest" /\ phases = 2 /\ paused_before
    /\ seconds = 300 /\ ~paused

-----------------------------------------------------------------------------
\* C21: after the configuration the countdown phases alternate work, rest,
\* work, ..., starting with work, and main always goes on with the other
\* phase; a phase ends exactly when seconds has passed below zero; each
\* phase starts with the configured duration of its kind, and the
\* configured durations never change after set_times has returned.
C21_PhasesAlternate ==
    /\ [](InCountdown =>
              phase = IF phases % 2 = 1 THEN "work" ELSE "rest")
    /\ [](pc = "countdown" =>
              phase = IF phases % 2 = 0 THEN "work" ELSE "rest")
    /\ [](pc \in {"L113", "L126", "L140"} => seconds >= 0)
    /\ [](pc = "rest_start" => phases > 0)
    /\ []((Returned /\ phases > 0) =>
              /\ seconds < 0
              /\ pc = IF phase = "work" THEN "rest_start" ELSE "work_start"
              /\ ENABLED (WorkStart \/ RestStart))
    /\ [](PhaseStart =>
              seconds = IF phase = "work" THEN study * 60 ELSE rest * 60)
    /\ [][pc # "L153" => UNCHANGED <<study_secs, rest_secs>>]_vars

\* The second work phase starts, after a work and a rest phase.
C21_Witness ==
    PhaseStart /\ phase = "work" /\ phases = 3 /\ depth = 0

-----------------------------------------------------------------------------
\* The cursor of the jingle a playback thread plays.
CursorOf(th) == jingles[th.gen][th.jingle]

\* C22: a playback thread calls tick() until tick() returns false, then
\* calls restart() once and ends without another tick(); with tick()
\* returning false after finitely many calls every started thread ends, and
\* every jingle is left at its start.
C22_PlaybackTerminates ==
    /\ [][\A i \in DOMAIN threads :
              (Len(threads') = Len(threads) /\ threads'[i] # threads[i]) =>
                  /\ threads[i].at = "tick" /\ threads'[i].at = "restart"
                  /\ ~TickResult(CursorOf(threads[i]))]_vars
    /\ [][\A g \in DOMAIN jingles : \A j \in DOMAIN jingles[g] :
              jingles'[g][j] # jingles[g][j] =>
                  \E i \in DOMAIN threads :
                      /\ threads[i].gen = g /\ threads[i].jingle = j
                      /\ \/ /\ threads[i].at = "tick"
                            /\ TickResult(jingles[g][j])
                            /\ jingles'[g][j] = jingles[g][j] + 1
                         \/ /\ threads[i].at = "restart"
                            /\ jingles'[g][j] = 0
                            /\ threads' = RemoveAt(threads, i)]_vars
    /\ [][Len(threads') < Len(threads) =>
              \E i \in DOMAIN threads :
                  /\ threads[i].at = "restart"
                  /\ Len(threads') = Len(threads) - 1
                  /\ jingles'[threads[i].gen][threads[i].jingle] = 0]_vars
    /\ <>[](/\ threads = << >>
            /\ \A g \in DOMAIN jingles : \A j \in DOMAIN jingles[g] :
                   jingles[g][j] = 0)

\* The rest melody's thread and, after a reset, the intro melody's thread
\* have both ended.
C22_Witness ==
    /\ threads = << >> /\ depth = 1 /\ Len(jingles) = 2
    /\ jingles[1].rest = 0 /\ jingles[2].intro = 0

-----------------------------------------------------------------------------
\* C26: at most one playback thread runs at any time: play_jingle is never
\* called while a thread started earlier has not ended.
C26_OnePlayback == Len(threads) <= 1

-----------------------------------------------------------------------------
\* C27: whenever the countdown is running (not paused) and waiting for the
\* next tick, the display cells are the MMSS frame of the current seconds;
\* in particular they are not left blank after a resume.
C27_RunningShowsFrame ==
    (pc = "L113" /\ ~paused /\ ticks_diff(end_time, clock) > 0) =>
        buffer = Write(Frame(seconds))

-----------------------------------------------------------------------------
\* C28: in the configuration phase idx only moves forward by one, exactly
\* on an accepted confirm press; an accepted up or down press changes only
\* the field being edited (study while idx is 0, rest while idx is 1);
\* study never changes after the first confirm; and set_times returns only
\* with idx = 2, that is after exactly two accepted confirm presses.
C28_ConfigFrame ==
    /\ [](idx \in 0..2)
    /\ [][SetIteration =>
              /\ idx' = IF "confirm" \in acc' THEN idx + 1 ELSE idx
              /\ idx = 0 => rest' = rest
              /\ idx = 1 => study' = study
              /\ acc' \cap {"up", "down"} = {} =>
                     (study' = study /\ rest' = rest)]_vars
    /\ [][idx' # idx => (SetIteration /\ idx' = idx + 1)]_vars
    /\ [][idx >= 1 => study' = study]_vars
    /\ [][(pc = "L153" /\ pc' # "L153") =>
              (idx = 2 /\ "confirm" \in had /\ pc' = "work_start"
               /\ study_secs' = study * 60 /\ rest_secs' = rest * 60)]_vars

\* set_times has returned after a down press on study and two confirm
\* presses.
C28_Witness ==
    /\ pc = "work_start" /\ idx = 2
    /\ study = StudyDefault - StepMinutes /\ rest = RestDefault

-----------------------------------------------------------------------------
\* The levels _refresh has to put on the segment lines and on the dp line
\* for the character c and the dot d.
LevelsFor(c) ==
    [i \in 1..7 |->
        IF (IF c \in DOMAIN Patterns THEN Patterns[c][i] ELSE 0) # 0
        THEN SEGMENT_ON ELSE SEGMENT_OFF]

DotLevel(d) == IF d THEN SEGMENT_ON ELSE SEGMENT_OFF

\* C23: once write, clear or set_decimal_point has completed and no further
\* update occurs, the next N _refresh invocations select every digit, each
\* with the segment pattern of its cell and the decimal-point level of its
\* dot; a digit that is lit shows the pattern of its own cell as _refresh
\* read it, never that of another cell.
C23_BufferRendered ==
    /\ rpc = "advance" =>
           /\ Selected = {current_digit}
           /\ ch = buffer[current_digit + 1]
           /\ segments = LevelsFor(buffer[current_digit + 1])
           /\ dp = DotLevel(dotmask[current_digit + 1])
    /\ (rpc = "idle" /\ since >= 1) =>
           /\ Selected = {sel_log[Len(sel_log)]}
           /\ segments = LevelsFor(buffer[sel_log[Len(sel_log)] + 1])
           /\ dp = DotLevel(dotmask[sel_log[Len(sel_log)] + 1])
    /\ since <= Len(sel_log)
    /\ {sel_log[Len(sel_log) + 1 - k] : k \in 1..since} \subseteq 0..(N - 1)
    /\ Cardinality({sel_log[Len(sel_log) + 1 - k] : k \in 1..since}) = since

\* N _refresh calls have completed since "0205" was written with a dot set
\* before it: every digit was selected once, the last one still lit.
C23_Witness ==
    /\ since = N /\ rpc = "idle" /\ api = "idle"
    /\ op.name = "write" /\ buffer = <<"0", "2", "0", "5">>
    /\ dotmask # NoDots
    /\ {sel_log[k] : k \in 1..N} = 0..(N - 1)

-----------------------------------------------------------------------------
\* One pass of countdown's polling loop before the deadline.
PollStep == pc = "L113" /\ ticks_diff(end_time, clock) > 0

\* C24: every reset accepted in countdown enters main() anew from inside the
\* interrupted countdown; main() starts from its first line and never hands
\* control back, so the nesting depth grows by one with every accepted
\* reset, by nothing else, and never decreases; every main() invocation has
\* made its own jingles, one more than the depth.
C24_ResetNests ==
    /\ [][depth' >= depth]_vars
    /\ [][(PollStep /\ btn_reset') =>
              (pc' = "main" /\ depth' = depth + 1)]_vars
    /\ [][depth' # depth =>
              (PollStep /\ btn_reset' /\ pc' = "main" /\ depth' = depth + 1)]_vars
    /\ [][pc = "main" => (pc' = "set_times" /\ depth' = depth)]_vars
    /\ [][pc = "set_times" => (pc' = "L153" /\ idx' = 0)]_vars
    /\ [](Len(jingles) = IF pc = "main" THEN depth ELSE depth + 1)

\* A second reset has been accepted, in the main() the first one called.
C24_Witness ==
    depth = 2 /\ pc = "set_times" /\ Len(jingles) = 3 /\ btn_reset

-----------------------------------------------------------------------------
\* C25: a button held down is accepted again and again: in a countdown
\* every read of the held confirm button toggles paused and is followed by
\* the 300 ms debounce delay, so that the countdown goes RUNNING, PAUSED,
\* RUNNING, ... once per delay; in the configuration phase the held button
\* is accepted exactly at the iterations that come more than the debounce
\* window after the latest accepted press.
C25_HeldRetriggers ==
    /\ [][((PollStep \/ pc \in {"L126", "L140"}) /\ btn_confirm') =>
              (paused' = ~paused /\ clock' = clock + DebounceSleepMs)]_vars
    /\ [][SetIteration =>
              \A b \in Buttons :
                  b \in acc' <=>
                      (Pressed(b)' /\ ticks_diff(clock, last) > debounce)]_vars

\* With confirm held, set_times has accepted it twice, at its 13th and its
\* 26th iteration (13 sleeps are the first time past the window), and the
\* work countdown is paused for the second time, three debounce delays
\* after its first frame.
C25_Witness ==
    /\ btn_confirm /\ idx = 2 /\ ~edited
    /\ 12 * SetSleepMs <= debounce /\ debounce < 13 * SetSleepMs
    /\ own_last["confirm"] = 26 * SetSleepMs
    /\ pc = "L126" /\ paused /\ phase = "work"
    /\ ticks_diff(clock, first_end) = 3 * DebounceSleepMs - TickMs

====
